---------------------------- MODULE Spec2Model ----------------------------
(***************************************************************************)
(* Model of the joker-audit scripts of balatro-rs:                         *)
(*   find_missing.py, missing_jokers_analysis.py and final_analysis.py.    *)
(*                                                                         *)
(* A Python str is a sequence of one-character strings.  The two           *)
(* non-ASCII characters of the mis-encoded "Seance" key are written        *)
(* "U+00C3" and "U+00A9" (and "U+00E3" for the lowercase of the first).    *)
(* The regular expressions of the scripts are run by a backtracking        *)
(* matcher (ReEnds, ReAt) over patterns that are sequences of quantified   *)
(* character classes, which is the shape of all three patterns.            *)
(***************************************************************************)
EXTENDS Integers, Sequences, FiniteSets, TLC

VARIABLES
    joker_rs,             \* text of core/src/joker.rs
    jokers_md,            \* lines of JOKERS.md (each with its line break)
    mja_pc,               \* missing_jokers_analysis.py: position
    mja_macro_match,      \*   macro_match (line 7)
    mja_implemented,      \*   implemented (lines 10-11), a list
    mja_implemented_set,  \*   implemented_set (line 12)
    mja_joker_details,    \*   joker_details (lines 19-46), insertion ordered
    mja_duplicates,       \*   duplicates (line 49), insertion ordered
    mja_missing_names,    \*   missing_names (lines 77-81)
    mja_out,              \*   what was printed so far
    fm_pc,                \* find_missing.py: position
    fm_macro_match,       \*   macro_match (line 7)
    fm_implemented,       \*   implemented (lines 10-11)
    fm_implemented_lower, \*   implemented_lower (line 12), a dict
    fm_joker_details,     \*   joker_details (lines 19-30), insertion ordered
    fm_spec_to_impl,      \*   spec_to_impl (lines 58, 65)
    fm_missing_names,     \*   missing_names (lines 59-64)
    fm_out,               \*   what was printed so far
    fa_pc,                \* final_analysis.py: position
    fa_missing,           \*   missing (line 90)
    fa_out                \*   what was printed so far

vars == <<joker_rs, jokers_md,
          mja_pc, mja_macro_match, mja_implemented, mja_implemented_set,
          mja_joker_details, mja_duplicates, mja_missing_names, mja_out,
          fm_pc, fm_macro_match, fm_implemented, fm_implemented_lower,
          fm_joker_details, fm_spec_to_impl, fm_missing_names, fm_out,
          fa_pc, fa_missing, fa_out>>

mja_vars == <<mja_pc, mja_macro_match, mja_implemented, mja_implemented_set,
              mja_joker_details, mja_duplicates, mja_missing_names, mja_out>>

fm_vars == <<fm_pc, fm_macro_match, fm_implemented, fm_implemented_lower,
             fm_joker_details, fm_spec_to_impl, fm_missing_names, fm_out>>

fa_vars == <<fa_pc, fa_missing, fa_out>>

-----------------------------------------------------------------------------
(* Characters *)

UpperChars == <<"A","B","C","D","E","F","G","H","I","J","K","L","M",
                "N","O","P","Q","R","S","T","U","V","W","X","Y","Z">>

LowerChars == <<"a","b","c","d","e","f","g","h","i","j","k","l","m",
                "n","o","p","q","r","s","t","u","v","w","x","y","z">>

DigitChars == <<"0","1","2","3","4","5","6","7","8","9">>

Range(f) == {f[i] : i \in DOMAIN f}

Upper == Range(UpperChars)

Lower == Range(LowerChars)

Digit == Range(DigitChars)

Alnum == Upper \cup Lower \cup Digit

\* str.isspace / the class \s
Whitespace == {" ", "\t", "\n", "\r"}

IndexOf(seq, c) == CHOOSE i \in DOMAIN seq : seq[i] = c

\* str.lower of one character
LowerChar(c) ==
    IF c \in Upper THEN LowerChars[IndexOf(UpperChars, c)]
    ELSE IF c = "U+00C3" THEN "U+00E3"
    ELSE c

\* str.upper of one character (the first character of str.capitalize)
UpperChar(c) ==
    IF c \in Lower THEN UpperChars[IndexOf(LowerChars, c)]
    ELSE IF c = "U+00E3" THEN "U+00C3"
    ELSE c

\* str.lower
StrLower(s) == [i \in DOMAIN s |-> LowerChar(s[i])]

\* The code points of the characters the model uses, in increasing order:
\* Python compares str values code point by code point.
CodePointOrder ==
    <<"\t", "\n", "\r", " ", "!", "#", "$", "'", "(", ")", ",", "-", ".", ":">>
    \o DigitChars \o <<";">> \o UpperChars \o <<"_">> \o LowerChars
    \o <<"|", "U+00A9", "U+00C3", "U+00E3">>

Ord(c) == IndexOf(CodePointOrder, c)

\* s < t for two str values
StrLess(s, t) ==
    \E k \in 0..Len(s) :
        /\ k <= Len(t)
        /\ \A i \in 1..k : s[i] = t[i]
        /\ \/ k = Len(s) /\ k < Len(t)
           \/ k < Len(s) /\ k < Len(t) /\ Ord(s[k+1]) < Ord(t[k+1])

\* sorted(xs) for a list of distinct str values
RECURSIVE Sorted(_)
Sorted(xs) ==
    IF xs = <<>> THEN <<>>
    ELSE LET m == CHOOSE i \in DOMAIN xs :
                      \A j \in DOMAIN xs : ~StrLess(xs[j], xs[i])
         IN <<xs[m]>> \o Sorted(SubSeq(xs, 1, m-1) \o SubSeq(xs, m+1, Len(xs)))

-----------------------------------------------------------------------------
(* Regular expressions (Python's re): a pattern is a sequence of items,    *)
(* each a character class taken once or repeated, greedy or lazy, with     *)
(* the number of the group it belongs to (0: none).                        *)

\* set/neg: the class ([^|] is {"|"} negated); min: 0 or 1 characters at
\* least; many: no upper limit (* and +) or one character; lazy: *? and +?
Item(set, neg, min, many, lazy, grp) ==
    [set |-> set, neg |-> neg, min |-> min, many |-> many, lazy |-> lazy, grp |-> grp]

Lit(c) == Item({c}, FALSE, 1, FALSE, FALSE, 0)

LitStr(s) == [i \in DOMAIN s |-> Lit(s[i])]

InClass(c, it) == (c \in it.set) # it.neg

\* how many characters of s from pos on the item can take at most
Run(s, pos, it) ==
    LET stop == CHOOSE j \in pos..(Len(s) + 1) :
                    /\ j > Len(s) \/ ~InClass(s[j], it)
                    /\ \A i \in pos..(j - 1) : InClass(s[i], it)
    IN IF pos > Len(s) THEN 0
       ELSE IF it.many THEN stop - pos
       ELSE IF stop > pos THEN 1
       ELSE 0

NoMatch == [ok |-> FALSE, start |-> 0, end |-> 0, groups |-> <<>>]

\* every way items lo..hi of pat match s from pos on, each as the positions
\* where the items end (one past the last character taken)
RECURSIVE ReEnds(_, _, _, _, _)
ReEnds(pat, s, lo, hi, pos) ==
    IF lo = hi
    THEN {<<pos + n>> : n \in pat[lo].min..Run(s, pos, pat[lo])}
    ELSE LET mid == (lo + hi) \div 2
         IN UNION {{a \o b : b \in ReEnds(pat, s, mid + 1, hi, a[Len(a)])} :
                       a \in ReEnds(pat, s, lo, mid, pos)}

\* backtracking tries a before b: at the first item where they differ a lazy
\* item takes fewer characters in a, a greedy item more
TriedFirst(pat, a, b) ==
    LET k == CHOOSE i \in DOMAIN a : a[i] # b[i] /\ \A j \in 1..(i - 1) : a[j] = b[j]
    IN IF pat[k].lazy THEN a[k] < b[k] ELSE a[k] > b[k]

NGroups(pat) ==
    LET gs == {pat[i].grp : i \in DOMAIN pat}
    IN CHOOSE g \in gs : \A h \in gs : h <= g

\* the text of group g: from the start of its first item to the end of its last
Group(pat, s, pos, ends, g) ==
    LET ks == {k \in DOMAIN pat : pat[k].grp = g}
        lo == CHOOSE k \in ks : \A j \in ks : k <= j
        hi == CHOOSE k \in ks : \A j \in ks : k >= j
    IN SubSeq(s, IF lo = 1 THEN pos ELSE ends[lo - 1], ends[hi] - 1)

\* the match of pat that starts at pos, if there is one: the first success of
\* Python's backtracking
ReAt(pat, s, pos) ==
    LET all  == ReEnds(pat, s, 1, Len(pat), pos)
        ends == CHOOSE a \in all : \A b \in all : a = b \/ TriedFirst(pat, a, b)
    IN IF all = {} THEN NoMatch
       ELSE [ok     |-> TRUE,
             start  |-> pos,
             end    |-> ends[Len(pat)],
             groups |-> [g \in 1..NGroups(pat) |-> Group(pat, s, pos, ends, g)]]

\* re.match(pat, s): anchored at the start of s only
ReMatch(pat, s) == ReAt(pat, s, 1)

\* re.search(pat, s) from position pos on: the leftmost match
ReSearchFrom(pat, s, pos) ==
    LET starts == {p \in pos..(Len(s) + 1) : ReEnds(pat, s, 1, Len(pat), p) # {}}
    IN IF starts = {} THEN NoMatch
       ELSE ReAt(pat, s, CHOOSE p \in starts : \A q \in starts : p <= q)

ReSearch(pat, s) == ReSearchFrom(pat, s, 1)

\* re.findall(pat, s) for a pattern with one group: group 1 of every
\* non-overlapping match, left to right
RECURSIVE ReFindAllFrom(_, _, _)
ReFindAllFrom(pat, s, pos) ==
    LET m == ReSearchFrom(pat, s, pos)
    IN IF ~m.ok THEN <<>>
       ELSE <<m.groups[1]>>
            \o ReFindAllFrom(pat, s, IF m.end > m.start THEN m.end ELSE m.end + 1)

ReFindAll(pat, s) == ReFindAllFrom(pat, s, 1)

-----------------------------------------------------------------------------
(* str methods *)

\* str.strip()
RECURSIVE Strip(_)
Strip(s) ==
    IF s = <<>> THEN s
    ELSE IF s[1] \in Whitespace THEN Strip(Tail(s))
    ELSE IF s[Len(s)] \in Whitespace THEN Strip(SubSeq(s, 1, Len(s) - 1))
    ELSE s

\* str.replace(old, new) for a one-character old and a new of length 0 or 1
RECURSIVE Replace(_, _, _)
Replace(s, old, new) ==
    IF s = <<>> THEN <<>>
    ELSE (IF s[1] = old THEN new ELSE <<s[1]>>) \o Replace(Tail(s), old, new)

\* str.split(): the maximal runs of non-whitespace characters
RECURSIVE Split(_, _)
Split(s, word) ==
    IF s = <<>> THEN (IF word = <<>> THEN <<>> ELSE <<word>>)
    ELSE IF s[1] \in Whitespace
         THEN (IF word = <<>> THEN <<>> ELSE <<word>>) \o Split(Tail(s), <<>>)
         ELSE Split(Tail(s), Append(word, s[1]))

\* str.capitalize(): first character uppercased, the rest lowercased
Capitalize(w) ==
    [i \in DOMAIN w |-> IF i = 1 THEN UpperChar(w[1]) ELSE LowerChar(w[i])]

\* ''.join(ws)
RECURSIVE Join(_)
Join(ws) == IF ws = <<>> THEN <<>> ELSE ws[1] \o Join(Tail(ws))

\* sub in s
Contains(s, sub) ==
    \E i \in 1..(Len(s) - Len(sub) + 1) : SubSeq(s, i, i + Len(sub) - 1) = sub

-----------------------------------------------------------------------------
(* An insertion-ordered dict: its keys in insertion order and its values *)

EmptyDict == [keys |-> <<>>, val |-> <<>>]

HasKey(d, k) == \E i \in DOMAIN d.keys : d.keys[i] = k

\* d[k] = v
DictSet(d, k, v) ==
    [keys |-> IF HasKey(d, k) THEN d.keys ELSE Append(d.keys, k),
     val  |-> [x \in Range(d.keys) \cup {k} |-> IF x = k THEN v ELSE d.val[x]]]

-----------------------------------------------------------------------------
(* The patterns of the scripts *)

\* r'make_jokers!\((.*?)\);' with re.DOTALL
MacroPattern ==
    LitStr(<<"m","a","k","e","_","j","o","k","e","r","s","!","(">>)
    \o <<Item({}, TRUE, 0, TRUE, TRUE, 1)>>
    \o LitStr(<<")",";">>)

\* r'([A-Z][a-zA-Z0-9]*)'
IdentPattern ==
    <<Item(Upper, FALSE, 1, FALSE, FALSE, 1), Item(Alnum, FALSE, 0, TRUE, FALSE, 1)>>

Spaces == Item(Whitespace, FALSE, 0, TRUE, FALSE, 0)

Digits(g) == Item(Digit, FALSE, 1, TRUE, FALSE, g)

Cell(g) == Item({"|"}, TRUE, 1, TRUE, TRUE, g)

\* r'\|\s*(\d+)\s*\|\s*([^|]+?)\s*\|\s*\$(\d+)\s*\|\s*([^|]+?)\s*\|\s*([^|]+?)\s*\|'
RowPattern ==
    <<Lit("|"), Spaces, Digits(1), Spaces,
      Lit("|"), Spaces, Cell(2), Spaces,
      Lit("|"), Spaces, Lit("$"), Digits(3), Spaces,
      Lit("|"), Spaces, Cell(4), Spaces,
      Lit("|"), Spaces, Cell(5), Spaces,
      Lit("|")>>

\* ['Missing', 'jokers', 'adding', 'to', 'reach', 'total']
StopList ==
    {<<"M","i","s","s","i","n","g">>,
     <<"j","o","k","e","r","s">>,
     <<"a","d","d","i","n","g">>,
     <<"t","o">>,
     <<"r","e","a","c","h">>,
     <<"t","o","t","a","l">>}

NotStopped(j) == j \notin StopList

\* lines 10-11 of both scripts: the identifiers of the macro's argument text
Implemented(macro_content) ==
    SelectSeq(ReFindAll(IdentPattern, macro_content), NotStopped)

CommonHeader == <<"#"," ","C","o","m","m","o","n"," ","J","o","k","e","r","s">>

UncommonHeader == <<"#"," ","U","n","c","o","m","m","o","n"," ","J","o","k","e","r","s">>

RareHeader == <<"#"," ","R","a","r","e"," ","J","o","k","e","r","s">>

LegendaryHeader == <<"#"," ","L","e","g","e","n","d","a","r","y"," ","J","o","k","e","r","s">>

\* lines 22-29 of missing_jokers_analysis.py
NextSection(current_section, line) ==
    IF Contains(line, CommonHeader) THEN "Common"
    ELSE IF Contains(line, UncommonHeader) THEN "Uncommon"
    ELSE IF Contains(line, RareHeader) THEN "Rare"
    ELSE IF Contains(line, LegendaryHeader) THEN "Legendary"
    ELSE current_section

-----------------------------------------------------------------------------
(* to_camel_case, the same function in both scripts *)

OverrideKeys ==
    <<<<"J","o","k","e","r">>,
      <<"O","o","p","s","!"," ","A","l","l"," ","6","s">>,
      <<"8"," ","B","a","l","l">>,
      <<"M","a","i","l","-","I","n"," ","R","e","b","a","t","e">>,
      <<"R","i","f","f","-","R","a","f","f">>,
      <<"W","a","l","k","i","e"," ","T","a","l","k","i","e">>,
      <<"S","U+00C3","U+00A9","a","n","c","e">>,
      <<"S","o","c","k"," ","a","n","d"," ","B","u","s","k","i","n">>,
      <<"D","r","i","v","e","r","'","s"," ","L","i","c","e","n","s","e">>>>

OverrideValues ==
    <<<<"T","h","e","J","o","k","e","r">>,
      <<"O","o","p","s","A","l","l","6","s">>,
      <<"E","i","g","h","t","B","a","l","l">>,
      <<"M","a","i","l","I","n","R","e","b","a","t","e">>,
      <<"R","i","f","f","R","a","f","f">>,
      <<"W","a","l","k","i","e","T","a","l","k","i","e">>,
      <<"S","e","a","n","c","e">>,
      <<"S","o","c","k","A","n","d","B","u","s","k","i","n">>,
      <<"D","r","i","v","e","r","L","i","c","e","n","s","e">>>>

IsOverrideKey(name) == \E i \in DOMAIN OverrideKeys : OverrideKeys[i] = name

\* name.replace("'", '').replace('!', '').replace('-', ' '), split, capitalize, join
GeneralRule(name) ==
    LET cleaned == Replace(Replace(Replace(name, "'", <<>>), "!", <<>>), "-", <<" ">>)
        words   == Split(cleaned, <<>>)
    IN Join([i \in DOMAIN words |-> Capitalize(words[i])])

\* to_camel_case without its special cases
to_camel_case_general(name) == GeneralRule(name)

to_camel_case(name) ==
    IF IsOverrideKey(name)
    THEN OverrideValues[IndexOf(OverrideKeys, name)]
    ELSE GeneralRule(name)

-----------------------------------------------------------------------------
(* missing_jokers_analysis.py *)

\* joker_details[name] = [entry]: the list begun anew at every row
mja_AddEntryReplacing(details, name, entry) == DictSet(details, name, <<entry>>)

\* lines 36-46: joker_details[name].append(entry), the list created on first use
mja_AddEntry(details, name, entry) ==
    DictSet(details, name,
            Append(IF HasKey(details, name) THEN details.val[name] ELSE <<>>, entry))

\* lines 19-46: the loop over the lines, numbered from 1
RECURSIVE mja_Scan(_, _, _, _)
mja_Scan(lines, i, current_section, details) ==
    IF i > Len(lines) THEN details
    ELSE LET section == NextSection(current_section, lines[i])
             match   == ReMatch(RowPattern, lines[i])
             entry   == [line    |-> i,
                         section |-> section,
                         num     |-> match.groups[1],
                         cost    |-> match.groups[3],
                         effect  |-> Strip(match.groups[4]),
                         unlock  |-> Strip(match.groups[5])]
         IN mja_Scan(lines, i + 1, section,
                     IF match.ok
                     THEN mja_AddEntry(details, Strip(match.groups[2]), entry)
                     ELSE details)

\* line 49: len(details) > 1
IsDuplicated(details) == Len(details) > 1

\* line 49: the dict comprehension keeps the order of joker_details
Duplicates(joker_details) ==
    LET keep(name) == IsDuplicated(joker_details.val[name])
        keys == SelectSeq(joker_details.keys, keep)
    IN [keys |-> keys, val |-> [name \in Range(keys) |-> joker_details.val[name]]]

\* camel not in implemented_set: the comparison without .lower()
IsMissingCaseSensitive(name, lowered) == to_camel_case(name) \notin lowered

\* line 80 (find_missing.py line 63): camel.lower() not in implemented_set
IsMissing(name, lowered) == StrLower(to_camel_case(name)) \notin lowered

\* lines 77-81 (find_missing.py lines 59-64)
MissingNames(keys, lowered) ==
    LET absent(name) == IsMissing(name, lowered)
    IN SelectSeq(keys, absent)

\* lines 97-101
mja_DuplicateLines(duplicates) ==
    LET names == Sorted(duplicates.keys)
    IN [i \in DOMAIN names |->
          [kind    |-> "duplicate",
           name    |-> names[i],
           entries |-> [k \in DOMAIN duplicates.val[names[i]] |->
                          [line    |-> duplicates.val[names[i]][k].line,
                           section |-> duplicates.val[names[i]][k].section,
                           num     |-> duplicates.val[names[i]][k].num,
                           cost    |-> duplicates.val[names[i]][k].cost]]]]

\* line 109: joker_details[name][0]
mja_Details(joker_details, name) == joker_details.val[name][1]

\* lines 107-116
mja_MissingLines(joker_details, missing_names) ==
    LET names == Sorted(missing_names)
    IN [i \in DOMAIN names |->
          [kind   |-> "missing",
           name   |-> names[i],
           camel  |-> to_camel_case(names[i]),
           rarity |-> mja_Details(joker_details, names[i]).section,
           cost   |-> mja_Details(joker_details, names[i]).cost,
           effect |-> mja_Details(joker_details, names[i]).effect,
           unlock |-> mja_Details(joker_details, names[i]).unlock]]

\* lines 4-12: read joker.rs, find the macro, extract the identifiers
mja_ReadSource ==
    /\ mja_pc = "start"
    /\ LET m == ReSearch(MacroPattern, joker_rs)
       IN /\ mja_macro_match' = m.ok
          /\ IF m.ok
             THEN /\ mja_implemented' = Implemented(m.groups[1])
                  /\ mja_implemented_set' =
                        {StrLower(j) : j \in Range(Implemented(m.groups[1]))}
             ELSE UNCHANGED <<mja_implemented, mja_implemented_set>>
    /\ mja_pc' = "read_md"
    /\ UNCHANGED <<mja_joker_details, mja_duplicates, mja_missing_names, mja_out>>
    /\ UNCHANGED <<joker_rs, jokers_md, fm_vars, fa_vars>>

\* lines 15-49: read JOKERS.md, build joker_details and duplicates
mja_ParseDoc ==
    /\ mja_pc = "read_md"
    /\ LET details == mja_Scan(jokers_md, 1, "Unknown", EmptyDict)
       IN /\ mja_joker_details' = details
          /\ mja_duplicates' = Duplicates(details)
    /\ mja_pc' = "find_missing"
    /\ UNCHANGED <<mja_macro_match, mja_implemented, mja_implemented_set,
                   mja_missing_names, mja_out>>
    /\ UNCHANGED <<joker_rs, jokers_md, fm_vars, fa_vars>>

\* lines 77-81, implemented_set bound or never read (no key to loop over)
mja_FindMissing ==
    /\ mja_pc = "find_missing"
    /\ mja_macro_match \/ mja_joker_details.keys = <<>>
    /\ mja_missing_names' = MissingNames(mja_joker_details.keys, mja_implemented_set)
    /\ mja_pc' = "header"
    /\ UNCHANGED <<mja_macro_match, mja_implemented, mja_implemented_set,
                   mja_joker_details, mja_duplicates, mja_out>>
    /\ UNCHANGED <<joker_rs, jokers_md, fm_vars, fa_vars>>

\* line 80 on the first key: implemented_set was never assigned (NameError)
mja_FindMissingNameError ==
    /\ mja_pc = "find_missing"
    /\ ~mja_macro_match
    /\ mja_joker_details.keys # <<>>
    /\ mja_pc' = "aborted"
    /\ UNCHANGED <<mja_macro_match, mja_implemented, mja_implemented_set,
                   mja_joker_details, mja_duplicates, mja_missing_names, mja_out>>
    /\ UNCHANGED <<joker_rs, jokers_md, fm_vars, fa_vars>>

\* lines 83-86
mja_PrintHeader ==
    /\ mja_pc = "header"
    /\ mja_out' = Append(mja_out, [kind |-> "banner", title |-> "MISSING JOKERS ANALYSIS"])
    /\ mja_pc' = "counts"
    /\ UNCHANGED <<mja_macro_match, mja_implemented, mja_implemented_set,
                   mja_joker_details, mja_duplicates, mja_missing_names>>
    /\ UNCHANGED <<joker_rs, jokers_md, fm_vars, fa_vars>>

\* lines 87-91
mja_PrintCounts ==
    /\ mja_pc = "counts"
    /\ mja_macro_match
    /\ mja_out' = Append(mja_out,
                         [kind        |-> "counts",
                          implemented |-> Len(mja_implemented),
                          unique      |-> Len(mja_joker_details.keys),
                          duplicates  |-> Len(mja_duplicates.keys),
                          missing     |-> Len(mja_missing_names)])
    /\ mja_pc' = "report"
    /\ UNCHANGED <<mja_macro_match, mja_implemented, mja_implemented_set,
                   mja_joker_details, mja_duplicates, mja_missing_names>>
    /\ UNCHANGED <<joker_rs, jokers_md, fm_vars, fa_vars>>

\* line 87: implemented was never assigned (NameError), nothing of it printed
mja_PrintCountsNameError ==
    /\ mja_pc = "counts"
    /\ ~mja_macro_match
    /\ mja_pc' = "aborted"
    /\ UNCHANGED <<mja_macro_match, mja_implemented, mja_implemented_set,
                   mja_joker_details, mja_duplicates, mja_missing_names, mja_out>>
    /\ UNCHANGED <<joker_rs, jokers_md, fm_vars, fa_vars>>

\* lines 93-134: the duplicates, the missing jokers, the summary
mja_PrintReport ==
    /\ mja_pc = "report"
    /\ mja_out' = mja_out
                  \o mja_DuplicateLines(mja_duplicates)
                  \o mja_MissingLines(mja_joker_details, mja_missing_names)
                  \o <<[kind    |-> "summary",
                        count   |-> Len(mja_missing_names),
                        missing |-> Sorted(mja_missing_names)]>>
    /\ mja_pc' = "done"
    /\ UNCHANGED <<mja_macro_match, mja_implemented, mja_implemented_set,
                   mja_joker_details, mja_duplicates, mja_missing_names>>
    /\ UNCHANGED <<joker_rs, jokers_md, fm_vars, fa_vars>>

mja_Next ==
    \/ mja_ReadSource
    \/ mja_ParseDoc
    \/ mja_FindMissing
    \/ mja_FindMissingNameError
    \/ mja_PrintHeader
    \/ mja_PrintCounts
    \/ mja_PrintCountsNameError
    \/ mja_PrintReport

-----------------------------------------------------------------------------
(* find_missing.py *)

\* lines 20-30: joker_details[name] = {...}, one dict per name
RECURSIVE fm_Scan(_, _, _)
fm_Scan(lines, i, details) ==
    IF i > Len(lines) THEN details
    ELSE LET match == ReMatch(RowPattern, lines[i])
             entry == [num    |-> match.groups[1],
                       cost   |-> match.groups[3],
                       effect |-> Strip(match.groups[4]),
                       unlock |-> Strip(match.groups[5])]
         IN fm_Scan(lines, i + 1,
                    IF match.ok
                    THEN DictSet(details, Strip(match.groups[2]), entry)
                    ELSE details)

\* line 12: {j.lower(): j for j in implemented}, a later j replacing an earlier
RECURSIVE fm_LowerDict(_, _)
fm_LowerDict(implemented, d) ==
    IF implemented = <<>> THEN d
    ELSE fm_LowerDict(Tail(implemented),
                      [x \in DOMAIN d \cup {StrLower(implemented[1])} |->
                          IF x = StrLower(implemented[1]) THEN implemented[1] ELSE d[x]])

\* lines 73-80
fm_MissingLines(joker_details, missing_names) ==
    LET names == Sorted(missing_names)
    IN [i \in DOMAIN names |->
          [kind   |-> "missing",
           name   |-> names[i],
           camel  |-> to_camel_case(names[i]),
           cost   |-> joker_details.val[names[i]].cost,
           effect |-> joker_details.val[names[i]].effect,
           unlock |-> joker_details.val[names[i]].unlock]]

\* lines 4-12
fm_ReadSource ==
    /\ fm_pc = "start"
    /\ LET m == ReSearch(MacroPattern, joker_rs)
       IN /\ fm_macro_match' = m.ok
          /\ IF m.ok
             THEN /\ fm_implemented' = Implemented(m.groups[1])
                  /\ fm_implemented_lower' = fm_LowerDict(Implemented(m.groups[1]), <<>>)
             ELSE UNCHANGED <<fm_implemented, fm_implemented_lower>>
    /\ fm_pc' = "read_md"
    /\ UNCHANGED <<fm_joker_details, fm_spec_to_impl, fm_missing_names, fm_out>>
    /\ UNCHANGED <<joker_rs, jokers_md, mja_vars, fa_vars>>

\* lines 15-30
fm_ParseDoc ==
    /\ fm_pc = "read_md"
    /\ fm_joker_details' = fm_Scan(jokers_md, 1, EmptyDict)
    /\ fm_pc' = "find_missing"
    /\ UNCHANGED <<fm_macro_match, fm_implemented, fm_implemented_lower,
                   fm_spec_to_impl, fm_missing_names, fm_out>>
    /\ UNCHANGED <<joker_rs, jokers_md, mja_vars, fa_vars>>

\* lines 58-65, implemented_lower bound or never read
fm_FindMissing ==
    /\ fm_pc = "find_missing"
    /\ fm_macro_match \/ fm_joker_details.keys = <<>>
    /\ fm_missing_names' = MissingNames(fm_joker_details.keys, DOMAIN fm_implemented_lower)
    /\ fm_spec_to_impl' = [name \in Range(fm_joker_details.keys) |-> to_camel_case(name)]
    /\ fm_pc' = "report"
    /\ UNCHANGED <<fm_macro_match, fm_implemented, fm_implemented_lower,
                   fm_joker_details, fm_out>>
    /\ UNCHANGED <<joker_rs, jokers_md, mja_vars, fa_vars>>

\* line 63 on the first key: implemented_lower was never assigned (NameError)
fm_FindMissingNameError ==
    /\ fm_pc = "find_missing"
    /\ ~fm_macro_match
    /\ fm_joker_details.keys # <<>>
    /\ fm_pc' = "aborted"
    /\ UNCHANGED <<fm_macro_match, fm_implemented, fm_implemented_lower,
                   fm_joker_details, fm_spec_to_impl, fm_missing_names, fm_out>>
    /\ UNCHANGED <<joker_rs, jokers_md, mja_vars, fa_vars>>

\* lines 67-80
fm_Report ==
    /\ fm_pc = "report"
    /\ fm_macro_match
    /\ fm_out' = fm_out
                 \o <<[kind |-> "total_in_md", value |-> Len(fm_joker_details.keys)],
                      [kind |-> "total_implemented", value |-> Len(fm_implemented)],
                      [kind |-> "missing_count", value |-> Len(fm_missing_names)]>>
                 \o fm_MissingLines(fm_joker_details, fm_missing_names)
    /\ fm_pc' = "done"
    /\ UNCHANGED <<fm_macro_match, fm_implemented, fm_implemented_lower,
                   fm_joker_details, fm_spec_to_impl, fm_missing_names>>
    /\ UNCHANGED <<joker_rs, jokers_md, mja_vars, fa_vars>>

\* line 67 prints, then line 68: implemented was never assigned (NameError)
fm_ReportNameError ==
    /\ fm_pc = "report"
    /\ ~fm_macro_match
    /\ fm_out' = Append(fm_out, [kind |-> "total_in_md", value |-> Len(fm_joker_details.keys)])
    /\ fm_pc' = "aborted"
    /\ UNCHANGED <<fm_macro_match, fm_implemented, fm_implemented_lower,
                   fm_joker_details, fm_spec_to_impl, fm_missing_names>>
    /\ UNCHANGED <<joker_rs, jokers_md, mja_vars, fa_vars>>

fm_Next ==
    \/ fm_ReadSource
    \/ fm_ParseDoc
    \/ fm_FindMissing
    \/ fm_FindMissingNameError
    \/ fm_Report
    \/ fm_ReportNameError

-----------------------------------------------------------------------------
(* final_analysis.py *)

\* lines 7-33
fa_implemented ==
    {"AbstractJoker", "Acrobat", "AncientJoker", "Arrowhead", "Astronomer",
     "Banner", "Baron", "BaseballCard", "Blackboard", "Bloodstone",
     "BlueJoker", "Blueprint", "Bootstraps", "Brainstorm", "Bull", "Burglar",
     "BurntJoker", "BusinessCard", "Campfire", "Canio", "CardSharp",
     "Cartomancer", "Castle", "Cavendish", "CeremonialDagger",
     "ChaosTheClown", "Chicot", "CleverJoker", "Cloud9", "Constellation",
     "CraftyJoker", "CrazyJoker", "CreditCard", "DNA",
     "DelayedGratification", "DeviousJoker", "DietCola", "DriverLicense",
     "DrollJoker", "Drunkard", "Dusk", "Egg", "EightBall", "Erosion",
     "EvenSteven", "FacelessJoker", "Fibonacci", "FlashCard", "FlowerPot",
     "FortuneTeller", "FourFingers", "GlassJoker", "GluttonousJoker",
     "GoldenJoker", "GoldenTicket", "GreedyJoker", "GreenJoker",
     "GrosMichel", "Hack", "HalfJoker", "HangingChad", "Hiker", "HitTheRoad",
     "Hologram", "IceCream", "InvisibleJoker", "JokerStencil", "JollyJoker",
     "Juggler", "LoyaltyCard", "Luchador", "LuckyCat", "LustyJoker",
     "MadJoker", "MailInRebate", "MarbleJoker", "Matador", "MerryAndy",
     "MidasMask", "Mime", "Misprint", "MrBones", "MysticSummit", "Obelisk",
     "OddTodd", "OnyxAgate", "OopsAll6s", "Pareidolia", "Perkeo",
     "Photograph", "Popcorn", "RaisedFist", "Ramen", "RedCard",
     "ReservedParking", "RideTheBus", "RiffRaff", "Rocket", "RoughGem",
     "Runner", "Satellite", "ScaryFace", "Scholar", "Seance", "SeeingDouble",
     "Seltzer", "ShootTheMoon", "Shortcut", "Showman", "SixthSense",
     "SlyJoker", "SmearedJoker", "SmileyFace", "SockAndBuskin", "SpaceJoker",
     "SpareTrousers", "Splash", "SquareJoker", "SteelJoker", "StoneJoker",
     "Stuntman", "Supernova", "Superposition", "Swashbuckler", "TheDuo",
     "TheFamily", "TheIdol", "TheJoker", "TheOrder", "TheTribe", "TheTrio",
     "Throwback", "ToDoList", "ToTheMoon", "TradingCard", "Triboulet",
     "Troubadour", "TurtleBean", "Vagabond", "Vampire", "WalkieTalkie",
     "WeeJoker", "WilyJoker", "WrathfulJoker", "Yorick", "ZanyJoker"}

\* lines 36-62
all_150 ==
    {"TheJoker", "GreedyJoker", "LustyJoker", "WrathfulJoker",
     "GluttonousJoker", "JollyJoker", "ZanyJoker", "MadJoker", "CrazyJoker",
     "DrollJoker", "SlyJoker", "WilyJoker", "CleverJoker", "DeviousJoker",
     "CraftyJoker", "HalfJoker", "CreditCard", "Banner", "MysticSummit",
     "RaisedFist", "JokerStencil", "ChaosTheClown", "ScaryFace",
     "AbstractJoker", "DelayedGratification", "GrosMichel", "EvenSteven",
     "OddTodd", "Scholar", "BusinessCard", "Supernova", "RideTheBus",
     "Runner", "IceCream", "Splash", "BlueJoker", "SixthSense",
     "Constellation", "Hiker", "GreenJoker", "Superposition", "ToDoList",
     "Cavendish", "RedCard", "SquareJoker", "RiffRaff", "GoldenTicket",
     "Swashbuckler", "SmileyFace", "GoldenJoker", "Drunkard",
     "FacelessJoker", "HangingChad", "Popcorn", "WalkieTalkie",
     "ShootTheMoon", "FortuneTeller", "Juggler", "Photograph",
     "ReservedParking", "MailInRebate", "EightBall", "Misprint", "Egg",
     "FourFingers", "Mime", "CeremonialDagger", "MarbleJoker", "LoyaltyCard",
     "Dusk", "Fibonacci", "SteelJoker", "Hack", "Pareidolia", "SpaceJoker",
     "Burglar", "Blackboard", "SmearedJoker", "Troubadour", "Certificate",
     "Acrobat", "SpareTrousers", "TradingCard", "FlashCard", "OnyxAgate",
     "Bloodstone", "Arrowhead", "RoughGem", "Seance", "GlassJoker",
     "Showman", "FlowerPot", "MerryAndy", "StoneJoker", "MrBones", "Cloud9",
     "Rocket", "Bull", "Luchador", "DietCola", "Seltzer", "Castle",
     "SockAndBuskin", "Hologram", "Matador", "ToTheMoon", "CardSharp",
     "Madness", "Ramen", "Throwback", "MidasMask", "Satellite", "Bootstraps",
     "TurtleBean", "Erosion", "OopsAll6s", "TheIdol", "SeeingDouble",
     "LuckyCat", "Cartomancer", "Astronomer", "Vampire", "Shortcut", "DNA",
     "Vagabond", "Baron", "Obelisk", "BaseballCard", "AncientJoker",
     "Campfire", "Stuntman", "InvisibleJoker", "Blueprint", "Brainstorm",
     "WeeJoker", "HitTheRoad", "TheDuo", "TheTrio", "TheFamily", "TheOrder",
     "TheTribe", "DriverLicense", "BurntJoker", "Canio", "Triboulet",
     "Yorick", "Chicot", "Perkeo"}

\* lines 65-78: the keys of joker_info
joker_info == {"Certificate", "Madness"}

\* line 86 "Target (per wiki): 150 jokers", line 113 "To reach 150"
Target == 150

\* line 112 "Status: 146 of 150 jokers implemented"
StatedImplemented == 146

\* lines 80-123; the missing jokers are printed in sorted order, kept here as
\* the set of the names printed and the set of those printed with details
fa_Run ==
    /\ fa_pc = "start"
    /\ fa_missing' = all_150 \ fa_implemented
    /\ fa_out' = <<[kind |-> "implemented", value |-> Cardinality(fa_implemented)],
                   [kind |-> "target", value |-> Target],
                   [kind |-> "missing_count", value |-> Cardinality(all_150 \ fa_implemented)],
                   [kind |-> "missing", names |-> all_150 \ fa_implemented,
                    detailed |-> (all_150 \ fa_implemented) \cap joker_info],
                   [kind |-> "status", implemented |-> StatedImplemented, of |-> Target],
                   [kind |-> "to_reach", target |-> Target,
                    need |-> Cardinality(all_150 \ fa_implemented)]>>
    /\ fa_pc' = "done"
    /\ UNCHANGED <<joker_rs, jokers_md, mja_vars, fm_vars>>

fa_Next == fa_Run

-----------------------------------------------------------------------------
(* Inputs: the two files the scripts read *)

\* all sequences over S of length at most n
RECURSIVE SeqsUpTo(_, _)
SeqsUpTo(S, n) ==
    IF n = 0 THEN {<<>>}
    ELSE LET shorter == SeqsUpTo(S, n - 1)
         IN shorter \cup {Append(x, e) : x \in {y \in shorter : Len(y) = n - 1}, e \in S}

MaxLines == 3

MaxRows == 2

MaxTokens == 2

MaxNameLen == 3

\* lines of a JOKERS.md: rows in two layouts (one name twice, with other
\* details), and a section heading
RowAb1 == <<"|"," ","1"," ","|"," ","A","b"," ","|"," ","$","2"," ","|"," ","e"," ","|"," ","u"," ","|","\n">>

RowAb2 == <<"|","2","|","A","b","|","$","3","|","f","|","v","|","\n">>

RowCd == <<"|"," ","3"," ","|"," ","C","d"," ","|"," ","$","4"," ","|"," ","g"," ","|"," ","w"," ","|","\n">>

RareHeading == <<"#","#"," ","R","a","r","e"," ","J","o","k","e","r","s","\n">>

DocLines == {RowAb1, RowAb2, RowCd, RareHeading}

Docs == SeqsUpTo(DocLines, MaxLines)

\* table lines that are not rows: the closing delimiter missing, the same with
\* one more cell, the cost without its "$", the table's heading line
RowOpen == <<"|"," ","4"," ","|"," ","G","h"," ","|"," ","$","5"," ","|"," ","i"," ","|"," ","x","\n">>

RowOpenExtra == <<"|"," ","5"," ","|"," ","E","f"," ","|"," ","$","6"," ","|"," ","h"," ","|"," ","y"," ","|"," ","z","\n">>

RowNoDollar == <<"|"," ","6"," ","|"," ","I","j"," ","|"," ","7"," ","|"," ","k"," ","|"," ","v"," ","|","\n">>

TableHeading == <<"|"," ","#"," ","|"," ","J","o","k","e","r"," ","|"," ","C","o","s","t"," ","|"," ","E","f","f","e","c","t"," ","|"," ","U","n","l","o","c","k"," ","|","\n">>

RowLines == {RowAb1, RowAb2, RowOpen, RowOpenExtra, RowNoDollar, TableHeading}

RowDocs == SeqsUpTo(RowLines, MaxRows)

\* a joker.rs with the macro and the argument text args
MacroSource(args) ==
    <<"p","u","b"," ","f","n"," ","x","(",")"," ","{","}","\n","m","a","k","e","_","j","o","k","e","r","s","!","(">> \o args \o <<")",";","\n">>

\* a joker.rs without the macro, and one whose macro call is not closed by ");"
NoMacroSources ==
    {<<"p","u","b"," ","f","n"," ","x","(",")"," ","{","}","\n">>,
     <<"m","a","k","e","_","j","o","k","e","r","s","!","(","A","b",","," ","C","d",")","\n">>}

\* argument tokens: identifiers (two differing in case only), a lower-case
\* first letter, an underscore inside, and two words of the stop list
ArgTokens ==
    {<<"A","b">>, <<"A","B">>, <<"a","B">>, <<"A","_","b">>, <<"M","i","s","s","i","n","g">>, <<"t","o">>}

\* the tokens joined by ", "
RECURSIVE JoinArgs(_)
JoinArgs(tokens) ==
    IF tokens = <<>> THEN <<>>
    ELSE IF Len(tokens) = 1 THEN tokens[1]
    ELSE tokens[1] \o <<",", " ">> \o JoinArgs(Tail(tokens))

Sources ==
    NoMacroSources \cup {MacroSource(JoinArgs(ts)) : ts \in SeqsUpTo(ArgTokens, MaxTokens)}

\* the sources the documents are audited against: no macro; Cd registered in
\* another letter case and Ab not; Ab registered and Cd not
FewSources ==
    {<<"p","u","b"," ","f","n"," ","x","(",")"," ","{","}","\n">>,
     MacroSource(<<"C","D",","," ","E","f">>),
     MacroSource(<<"\n"," "," "," "," ","A","b",",","\n"," "," "," "," ","G","h",",","\n">>)}

FewDocs == {<<>>, <<RowAb1>>, <<RowAb1, RowCd, RowAb2>>}

\* the characters display names are made of
NameChars == {"a", "B", "8", " ", "-", "'", "."}

\* a JOKERS.md with one table line whose name cell is name
NameDoc(name) == <<<<"|"," ","1"," ","|">> \o name \o <<"|"," ","$","2"," ","|"," ","e"," ","|"," ","u"," ","|","\n">>>>

NameDocs ==
    {NameDoc(name) : name \in SeqsUpTo(NameChars, MaxNameLen) \cup Range(OverrideKeys)}

NameSources ==
    {<<"p","u","b"," ","f","n"," ","x","(",")"," ","{","}","\n">>,
     MacroSource(<<"T","h","e","J","o","k","e","r",","," ","E","i","g","h","t","B","a","l","l",","," ","A","b">>)}

-----------------------------------------------------------------------------
(* Specifications *)

InitScripts ==
    /\ mja_pc = "start"
    /\ mja_macro_match = FALSE
    /\ mja_implemented = <<>>
    /\ mja_implemented_set = {}
    /\ mja_joker_details = EmptyDict
    /\ mja_duplicates = EmptyDict
    /\ mja_missing_names = <<>>
    /\ mja_out = <<>>
    /\ fm_pc = "start"
    /\ fm_macro_match = FALSE
    /\ fm_implemented = <<>>
    /\ fm_implemented_lower = <<>>
    /\ fm_joker_details = EmptyDict
    /\ fm_spec_to_impl = <<>>
    /\ fm_missing_names = <<>>
    /\ fm_out = <<>>
    /\ fa_pc = "start"
    /\ fa_missing = {}
    /\ fa_out = <<>>

\* the two reconciling scripts run on every document, against a few sources
Init ==
    /\ joker_rs \in FewSources
    /\ jokers_md \in Docs
    /\ InitScripts

Next == mja_Next \/ fm_Next

Spec == Init /\ [][Next]_vars

\* missing_jokers_analysis.py and final_analysis.py run on every source
InitSource ==
    /\ joker_rs \in Sources
    /\ jokers_md \in FewDocs
    /\ InitScripts

NextSource == mja_Next \/ fa_Next

SpecSource == InitSource /\ [][NextSource]_vars

\* find_missing.py run on every display name
InitNames ==
    /\ joker_rs \in NameSources
    /\ jokers_md \in NameDocs
    /\ InitScripts

NextNames == fm_Next

SpecNames == InitNames /\ [][NextNames]_vars

\* missing_jokers_analysis.py run on documents of rows and lines that are not rows
InitRows ==
    /\ joker_rs \in {<<"p","u","b"," ","f","n"," ","x","(",")"," ","{","}","\n">>,
                      MacroSource(<<"A","b">>)}
    /\ jokers_md \in RowDocs
    /\ InitScripts

NextRows == mja_Next

SpecRows == InitRows /\ [][NextRows]_vars

-----------------------------------------------------------------------------
(* Properties: the rows of the document and its display names *)

\* re.match of the row pattern on every line of the document
Matches(lines) == [i \in DOMAIN lines |-> ReMatch(RowPattern, lines[i])]

\* the lines of the document the scripts take as rows (ms: Matches of it)
RowsOf(ms) == {i \in DOMAIN ms : ms[i].ok}

NameOfRow(ms, i) == Strip(ms[i].groups[2])

DisplayNames(ms) == {NameOfRow(ms, i) : i \in RowsOf(ms)}

Occurrences(ms, name) == {i \in RowsOf(ms) : NameOfRow(ms, i) = name}

NoRepeats(seq) == \A i, j \in DOMAIN seq : i # j => seq[i] # seq[j]

Least(S) == CHOOSE x \in S : \A y \in S : x <= y

Greatest(S) == CHOOSE x \in S : \A y \in S : y <= x

\* the section a line lies in: that of the last heading up to it
SectionAt(lines, i) ==
    LET headings == {k \in 1..i : NextSection("", lines[k]) # ""}
    IN IF headings = {} THEN "Unknown"
       ELSE NextSection("", lines[Greatest(headings)])

\* some implemented identifier equals the name's canonical identifier up to case
ImplementedAs(name, implemented) ==
    \E j \in Range(implemented) : StrLower(j) = StrLower(to_camel_case(name))

mja_Parsed == mja_pc \notin {"start", "read_md"}

mja_Reconciled == mja_pc \in {"header", "counts", "report", "done"}

fm_Reconciled == fm_pc \in {"report", "done"}

NoMacro == ~ReSearch(MacroPattern, joker_rs).ok

IsMissingLine(r) == r.kind = "missing"

\* the missing-joker listing of a report: name, cost, effect, unlock per entry
Listing(out) ==
    LET ms == SelectSeq(out, IsMissingLine)
    IN [i \in DOMAIN ms |-> [name   |-> ms[i].name,
                             cost   |-> ms[i].cost,
                             effect |-> ms[i].effect,
                             unlock |-> ms[i].unlock]]

-----------------------------------------------------------------------------
(* C1 *)

\* C1: once a script has reconciled, its missing list holds, each once, exactly
\* the display names of the rows whose canonical identifier equals no
\* implemented identifier when both are lowercased (in both scripts).
C1_MissingIsExact ==
    LET names == DisplayNames(Matches(jokers_md))
    IN /\ (mja_Reconciled /\ mja_macro_match) =>
             /\ NoRepeats(mja_missing_names)
             /\ Range(mja_missing_names) =
                   {n \in names : ~ImplementedAs(n, mja_implemented)}
       /\ (fm_Reconciled /\ fm_macro_match) =>
             /\ NoRepeats(fm_missing_names)
             /\ Range(fm_missing_names) =
                   {n \in names : ~ImplementedAs(n, fm_implemented)}

\* both scripts finished on a document where a name that occurs twice is
\* missing and another name is matched only because case is ignored
C1_Witness ==
    /\ mja_pc = "done"
    /\ fm_pc = "done"
    /\ \E n \in Range(mja_missing_names), m \in DisplayNames(Matches(jokers_md)) :
          /\ Cardinality(Occurrences(Matches(jokers_md), n)) >= 2
          /\ n \in Range(fm_missing_names)
          /\ m \notin Range(mja_missing_names)
          /\ to_camel_case(m) \notin Range(mja_implemented)

-----------------------------------------------------------------------------
(* C2 *)

\* C2: when joker.rs holds no make_jokers!(...); the run of
\* missing_jokers_analysis.py prints nothing and does not complete.
C2_NoPartialReport == NoMacro => (mja_out = <<>> /\ mja_pc # "done")

-----------------------------------------------------------------------------
(* C3 *)

\* C3: joker_details lists the distinct display names in the order of their
\* first rows; each name's group holds its rows, all of them, in document order
\* and with the row's own fields; duplicates holds exactly the names with two or
\* more rows, with their groups; the printed counts are the number of duplicate
\* groups and the number of distinct names.
C3_Grouping ==
    mja_Parsed =>
        LET d      == mja_joker_details
            ms     == Matches(jokers_md)
            names  == DisplayNames(ms)
            occ    == [n \in names |-> Occurrences(ms, n)]
            twice  == {n \in names : Cardinality(occ[n]) >= 2}
        IN /\ NoRepeats(d.keys)
           /\ Range(d.keys) = names
           /\ \A a, b \in DOMAIN d.keys :
                 a < b => Least(occ[d.keys[a]]) < Least(occ[d.keys[b]])
           /\ \A n \in names :
                 /\ {d.val[n][k].line : k \in DOMAIN d.val[n]} = occ[n]
                 /\ Len(d.val[n]) = Cardinality(occ[n])
                 /\ \A k \in 1..(Len(d.val[n]) - 1) : d.val[n][k].line < d.val[n][k+1].line
                 /\ \A k \in DOMAIN d.val[n] :
                       LET m == ms[d.val[n][k].line]
                       IN /\ d.val[n][k].section = SectionAt(jokers_md, d.val[n][k].line)
                          /\ d.val[n][k].num = m.groups[1]
                          /\ d.val[n][k].cost = m.groups[3]
                          /\ d.val[n][k].effect = Strip(m.groups[4])
                          /\ d.val[n][k].unlock = Strip(m.groups[5])
           /\ NoRepeats(mja_duplicates.keys)
           /\ Range(mja_duplicates.keys) = twice
           /\ \A n \in twice :
                 /\ mja_duplicates.val[n] = d.val[n]
                 /\ Len(mja_duplicates.val[n]) >= 2
           /\ \A k \in DOMAIN mja_out :
                 mja_out[k].kind = "counts" =>
                    /\ mja_out[k].duplicates = Cardinality(twice)
                    /\ mja_out[k].unique = Cardinality(names)

\* a finished run on a document where a second name's row lies between the two
\* rows of a duplicated name, the counts printed
C3_Witness ==
    /\ mja_pc = "done"
    /\ \E k \in DOMAIN mja_out : mja_out[k].kind = "counts" /\ mja_out[k].duplicates = 1
                                  /\ mja_out[k].unique = 2
    /\ \E n \in Range(mja_duplicates.keys), m \in Range(mja_joker_details.keys) :
          /\ m # n
          /\ mja_duplicates.val[n][1].line < mja_joker_details.val[m][1].line
          /\ mja_joker_details.val[m][1].line < mja_duplicates.val[n][2].line
          /\ mja_joker_details.keys = <<n, m>>

-----------------------------------------------------------------------------
(* C4 *)

\* C4: the printed "Total implemented" is the number of elements of
\* implemented_set, the set membership is tested against.
C4_ImplementedCountIsSetSize ==
    \A k \in DOMAIN mja_out :
        mja_out[k].kind = "counts" =>
            mja_out[k].implemented = Cardinality(mja_implemented_set)

-----------------------------------------------------------------------------
(* C5 *)

Punctuation == {"!", "#", "$", "'", "(", ")", ",", "-", ".", ":", ";", "_", "|"}

\* the words of a name: separated by whitespace or hyphens, apostrophes and
\* exclamation marks dropped
WordsOf(name) ==
    Split(Replace(Replace(Replace(name, "-", <<" ">>), "'", <<>>), "!", <<>>), <<>>)

\* C5: for a display name that is no override key the canonical identifier has
\* no whitespace and no punctuation, and is the capitalized words of the name
\* joined without separator.
C5_GeneralRuleYieldsIdentifier ==
    fm_Reconciled =>
        \A n \in DOMAIN fm_spec_to_impl :
            ~IsOverrideKey(n) =>
                /\ \A i \in DOMAIN fm_spec_to_impl[n] :
                      fm_spec_to_impl[n][i] \notin Whitespace \cup Punctuation
                /\ fm_spec_to_impl[n] =
                      Join([i \in DOMAIN WordsOf(n) |-> Capitalize(WordsOf(n)[i])])

-----------------------------------------------------------------------------
(* C6 *)

\* the comma/whitespace-separated tokens of the macro's argument text
TokensOf(args) == Split(Replace(args, ",", <<" ">>), <<>>)

IsIdentifierToken(t) ==
    /\ t[1] \in Upper
    /\ \A i \in DOMAIN t : t[i] \in Alnum
    /\ t \notin StopList

\* C6: implemented is the list of the argument tokens that begin with an
\* uppercase letter, are alphanumeric throughout and are not in the stop list,
\* in their order; no other token contributes an identifier.
C6_OnlyWholeTokens ==
    (mja_pc # "start" /\ mja_macro_match) =>
        mja_implemented =
            SelectSeq(TokensOf(ReSearch(MacroPattern, joker_rs).groups[1]), IsIdentifierToken)

-----------------------------------------------------------------------------
(* C7 *)

\* the pieces of s between the occurrences of sep
RECURSIVE SplitOn(_, _, _)
SplitOn(s, sep, piece) ==
    IF s = <<>> THEN <<piece>>
    ELSE IF s[1] = sep THEN <<piece>> \o SplitOn(Tail(s), sep, <<>>)
    ELSE SplitOn(Tail(s), sep, Append(piece, s[1]))

IsNumber(s) == s # <<>> /\ \A i \in DOMAIN s : s[i] \in Digit

\* a line of the fixed column structure: "|" at both ends (the line break
\* aside) and between them exactly five cells: number, name, "$" and number,
\* effect, unlock
WellFormedRow(line) ==
    LET body   == IF line # <<>> /\ line[Len(line)] = "\n"
                  THEN SubSeq(line, 1, Len(line) - 1) ELSE line
        pieces == SplitOn(body, "|", <<>>)
    IN /\ Len(pieces) = 7
       /\ pieces[1] = <<>>
       /\ pieces[7] = <<>>
       /\ IsNumber(Strip(pieces[2]))
       /\ Strip(pieces[3]) # <<>>
       /\ Strip(pieces[4]) # <<>>
       /\ Strip(pieces[4])[1] = "$"
       /\ IsNumber(Tail(Strip(pieces[4])))
       /\ Strip(pieces[5]) # <<>>
       /\ Strip(pieces[6]) # <<>>

\* C7: the lines recorded in joker_details are exactly the lines of the fixed
\* column structure; no other line reaches joker_details.
C7_OnlyWellFormedRows ==
    mja_Parsed =>
        UNION {{mja_joker_details.val[n][k].line : k \in DOMAIN mja_joker_details.val[n]} :
                 n \in Range(mja_joker_details.keys)}
          = {i \in DOMAIN jokers_md : WellFormedRow(jokers_md[i])}

-----------------------------------------------------------------------------
(* C8 *)

\* C8: every override key found in the document is given its table value, in
\* spec_to_impl and in the printed listing; "8 Ball" becomes EightBall, with no
\* digit 8, and "Joker" becomes TheJoker.
C8_OverridesWin ==
    fm_Reconciled =>
        /\ \A i \in DOMAIN OverrideKeys :
              OverrideKeys[i] \in DOMAIN fm_spec_to_impl =>
                  /\ fm_spec_to_impl[OverrideKeys[i]] = OverrideValues[i]
                  /\ \A k \in DOMAIN fm_out :
                        (fm_out[k].kind = "missing" /\ fm_out[k].name = OverrideKeys[i])
                           => fm_out[k].camel = OverrideValues[i]
        /\ <<"8"," ","B","a","l","l">> \in DOMAIN fm_spec_to_impl =>
              /\ fm_spec_to_impl[<<"8"," ","B","a","l","l">>] = <<"E","i","g","h","t","B","a","l","l">>
              /\ "8" \notin Range(fm_spec_to_impl[<<"8"," ","B","a","l","l">>])
        /\ <<"J","o","k","e","r">> \in DOMAIN fm_spec_to_impl =>
              fm_spec_to_impl[<<"J","o","k","e","r">>] = <<"T","h","e","J","o","k","e","r">>

\* a finished run on the document naming "8 Ball", found implemented as
\* EightBall
C8_Witness ==
    /\ fm_pc = "done"
    /\ <<"8"," ","B","a","l","l">> \in DOMAIN fm_spec_to_impl
    /\ fm_spec_to_impl[<<"8"," ","B","a","l","l">>] = <<"E","i","g","h","t","B","a","l","l">>
    /\ fm_missing_names = <<>>

-----------------------------------------------------------------------------
(* C9 *)

\* C9: all_150 holds 150 identifiers, every implemented identifier is one of
\* them, and the stated 146 implemented plus the missing ones make the target
\* of 150.
C9_MissingReachesTarget ==
    fa_pc = "done" =>
        /\ Cardinality(all_150) = Target
        /\ fa_implemented \subseteq all_150
        /\ Cardinality(fa_implemented) = StatedImplemented
        /\ StatedImplemented + Cardinality(fa_missing) = Target

-----------------------------------------------------------------------------
(* C10 *)

\* C10: when both scripts have finished, their missing-joker listings are the
\* same: the same names in the same order, each with the same cost, effect and
\* unlock.
C10_SameListing ==
    (mja_pc = "done" /\ fm_pc = "done") => Listing(mja_out) = Listing(fm_out)

=============================================================================
